---- MODULE Spec2Model ----
(***************************************************************************)
(* A model of the demo components and documented hooks of react-deep:      *)
(*   - the ThemeContext hook useThemeContext            (SpecTheme)        *)
(*   - the DataProvider / DataConsumer context pair     (SpecData)         *)
(*   - the App component: counter + useActionState form (Spec)             *)
(*   - the documented custom useActionState hook        (SpecHook)         *)
(* Each subsystem has its own variables, initial predicate and next-state  *)
(* relation; a subsystem's steps leave the other subsystems unchanged.     *)
(***************************************************************************)
EXTENDS Integers, Sequences, FiniteSets, TLC

VARIABLES
    \* ---- ThemeContext (createContext / useThemeContext)
    outerTheme,     \* value of an outer <ThemeContext.Provider>, or NoProvider
    innerTheme,     \* value of a nested <ThemeContext.Provider>, or NoProvider
    themeCall,      \* the last call of useThemeContext and what it produced
    \* ---- DataProvider / DataConsumer
    data,           \* data[p]: the `data` of provider p's last render
    dataQueue,      \* dataQueue[p]: setData updates scheduled, not yet rendered
    parent,         \* parent[c]: the provider consumer c is mounted under, or Unmounted
    outside,        \* outside[c]: c's last render had no DataProvider above it
    renderError,    \* renderError[c]: the error c's last render raised, or NoError
    shown,          \* shown[c]: the text consumer c displays after "Data:"
    dataClicks,     \* dataClicks[p]: clicks handled by consumers of p (history)
    \* ---- App: counter and useActionState form
    count,          \* the `count` of App's last render ("count is {count}")
    countQueue,     \* number of setCount updater calls scheduled, not yet rendered
    countClicks,    \* clicks of the counter button handled so far (history)
    countBatch,     \* updaters the last render of App applied at once (history)
    state,          \* the `state` of App's last render
    isPending,      \* the `isPending` of App's last render
    hookState,      \* useActionState: the state the hook holds (last result)
    hookPending,    \* useActionState: the pending flag the hook holds
    actionQueue,    \* useActionState: submissions dispatched and not yet returned
    nSubmitted,     \* number of form submissions so far (history)
    runs,           \* runs[i]: how often `action` was called for submission i
    returned,       \* returned[i]: what `action` returned for submission i
    \* ---- the documented custom hook useActionState(actionFunction, initialState)
    initialState,   \* the initialState argument the hook was called with
    uasState,       \* the hook's `state`
    uasCalls,       \* uasCalls[c]: progress and outcome of the c-th executeAction call
    redState,       \* the `state` of the useReducer version of the hook
    redSettled,     \* redSettled[c]: how the useReducer version's c-th call settled
    settleOrder,    \* the executeAction calls that have settled, in settling order (history)
    \* ---- the documented optimistic-update example (addComment)
    commentState,   \* state.comments as useActionState holds it
    commentQueue,   \* comments passed to addComment whose action has not returned
    commentOutcome, \* commentOutcome[c]: "none", "running", "saved" or "failed" (history)
    \* ---- the documented UserProfile component (data fetching on a prop)
    userId,         \* the userId prop of the last render
    userData,       \* useState(null)
    loading,        \* useState(true)
    profileError,   \* error: useState(null)
    fetches,        \* the fetchData() calls that have not settled: [n, user]
    nFetches,       \* how many times the effect has run
    \* ---- the documented effect-with-cleanup examples (TimerComponent)
    timerMounted,   \* whether the component is mounted
    timerDeps,      \* the effect's dependency array: "[]" or "[dep]"
    dep,            \* the value of the dependency at the last render
    time,           \* useState(0)
    intervalId,     \* the intervalId captured by the last effect run's cleanup
    timers,         \* the intervals set and not cleared
    nTimers,        \* how many times setInterval has been called
    lateUpdates,    \* setTime calls made while unmounted (history)
    \* ---- the documented CorrectEffectComponent and InfiniteLoopComponent
    corCount,       \* CorrectEffectComponent: count of the last render
    corState,       \* CorrectEffectComponent: count as the state hook holds it
    corEffectDue,   \* CorrectEffectComponent: the last render scheduled the effect
    loopCount,      \* InfiniteLoopComponent: count of the last render
    loopState,      \* InfiniteLoopComponent: count as the state hook holds it
    loopEffectDue,  \* InfiniteLoopComponent: the last render scheduled the effect
    loopRenders,    \* InfiniteLoopComponent: renders so far (history)
    \* ---- the documented list of people rendered with keys
    items,          \* the list that is rendered
    indexElements,  \* key = index: indexElements[k] is the item for which the
                    \* element with key k was created (whose state it holds)
    idElements,     \* key = id: idElements[i] likewise for the element with key i
    listRenders,    \* renders of the list so far
    listChanged,    \* whether the list was ever reordered, filtered or added to
    \* ---- one call of `action` on its own
    callPreState,   \* the preState argument
    callFormData,   \* the formData argument: its id and username entries
    callOutcome,    \* what the call did: nothing yet, returned a value, or threw
    \* ---- the documented ChatApp example
    messages,           \* useState([]): messages as the state hook holds it
    renderedMessages,   \* messages of the last render, which handleSubmit closes over
    optimisticMessages, \* what useOptimistic hands out
    sends,              \* sends[c]: where the c-th handleSubmit call is, and its closure
    nSends              \* how many times handleSubmit has been called

themeVars == <<outerTheme, innerTheme, themeCall>>
dataVars  == <<data, dataQueue, parent, shown, dataClicks, outside, renderError>>
appVars   == <<count, countQueue, countClicks, countBatch, state, isPending, hookState,
               hookPending, actionQueue, nSubmitted, runs, returned>>
uasVars   == <<initialState, uasState, uasCalls, redState, redSettled, settleOrder>>
comVars   == <<commentState, commentQueue, commentOutcome>>
upVars    == <<userId, userData, loading, profileError, fetches, nFetches>>
timerVars == <<timerMounted, timerDeps, dep, time, intervalId, timers, nTimers,
               lateUpdates>>
effVars   == <<corCount, corState, corEffectDue, loopCount, loopState,
               loopEffectDue, loopRenders>>
listVars  == <<items, indexElements, idElements, listRenders, listChanged>>
callVars  == <<callPreState, callFormData, callOutcome>>
chatVars  == <<messages, renderedMessages, optimisticMessages, sends, nSends>>
vars      == <<themeVars, dataVars, appVars, uasVars, comVars, upVars, timerVars,
               effVars, listVars, callVars,
               chatVars>>

\* What the steps of one subsystem leave unchanged.
notTheme == <<dataVars, appVars, uasVars, comVars, upVars, timerVars,
             effVars, listVars, callVars, chatVars>>
notData  == <<themeVars, appVars, uasVars, comVars, upVars, timerVars,
             effVars, listVars, callVars, chatVars>>
notApp   == <<themeVars, dataVars, uasVars, comVars, upVars, timerVars,
             effVars, listVars, callVars, chatVars>>
notUas   == <<themeVars, dataVars, appVars, comVars, upVars, timerVars,
             effVars, listVars, callVars, chatVars>>
notCom   == <<themeVars, dataVars, appVars, uasVars, upVars, timerVars,
             effVars, listVars, callVars, chatVars>>
notUp    == <<themeVars, dataVars, appVars, uasVars, comVars, timerVars,
             effVars, listVars, callVars, chatVars>>
notTimer == <<themeVars, dataVars, appVars, uasVars, comVars, upVars,
             effVars, listVars, callVars, chatVars>>
notEff   == <<themeVars, dataVars, appVars, uasVars, comVars, upVars,
             timerVars, listVars, callVars, chatVars>>
notList  == <<themeVars, dataVars, appVars, uasVars, comVars, upVars,
             timerVars, effVars, callVars, chatVars>>
notCall  == <<themeVars, dataVars, appVars, uasVars, comVars, upVars,
             timerVars, effVars, listVars, chatVars>>
notChat  == <<themeVars, dataVars, appVars, uasVars, comVars, upVars,
             timerVars, effVars, listVars, callVars>>

(***************************************************************************)
(* JavaScript values                                                       *)
(***************************************************************************)
Null      == "null"
Undefined == "undefined"

(***************************************************************************)
(* ThemeContext                                                            *)
(***************************************************************************)
NoProvider == "no-provider"

\* The values a <ThemeContext.Provider value={...}> may carry.
ThemeValues == {"light", "dark", Null, Undefined}

\* createContext(null): the default value of ThemeContext.
ThemeContextDefault == Null

\* useContext: the value of the nearest provider above the caller, or the
\* context's default value when there is none.
UseContext(inner, outer, default) ==
    IF inner # NoProvider THEN inner
    ELSE IF outer # NoProvider THEN outer
    ELSE default

ThemeError == "useThemeContext must be used with a ThemeContext"

\* useThemeContext, given what useContext(ThemeContext) returned.
useThemeContext(context) ==
    IF context = Undefined
    THEN [kind |-> "threw", value |-> ThemeError]
    ELSE [kind |-> "returned", value |-> context]

NoThemeCall ==
    [called |-> FALSE, provided |-> FALSE, nearest |-> NoProvider,
     result |-> [kind |-> "none", value |-> Null]]

ThemeInit ==
    /\ outerTheme = NoProvider
    /\ innerTheme = NoProvider
    /\ themeCall = NoThemeCall

\* The tree is rendered with (or without) an outer provider.
SetOuterTheme ==
    /\ \E v \in ThemeValues \cup {NoProvider} :
          /\ v # outerTheme
          /\ outerTheme' = v
    /\ UNCHANGED <<innerTheme, themeCall, notTheme>>

\* The tree is rendered with (or without) a nested provider.
SetInnerTheme ==
    /\ \E v \in ThemeValues \cup {NoProvider} :
          /\ v # innerTheme
          /\ innerTheme' = v
    /\ UNCHANGED <<outerTheme, themeCall, notTheme>>

\* A component below both provider positions calls useThemeContext().
CallUseThemeContext ==
    /\ themeCall' =
          [called   |-> TRUE,
           provided |-> (innerTheme # NoProvider \/ outerTheme # NoProvider),
           nearest  |-> IF innerTheme # NoProvider THEN innerTheme ELSE outerTheme,
           result   |-> useThemeContext(
                            UseContext(innerTheme, outerTheme, ThemeContextDefault))]
    /\ UNCHANGED <<outerTheme, innerTheme, notTheme>>

ThemeNext ==
    \/ SetOuterTheme
    \/ SetInnerTheme
    \/ CallUseThemeContext

(***************************************************************************)
(* DataProvider / DataConsumer                                             *)
(***************************************************************************)
NumConsumers == 3
MaxDataClicks == 2

\* Two DataProvider instances, each with its own useState.
Providers == {"provider-1", "provider-2"}
Consumers == 1..NumConsumers
Unmounted == "unmounted"

\* React.useState('This is the data!')
InitialData == "This is the data!"
\* setData('Data has changed!')
ChangedData == "Data has changed!"
NothingShown == "(not mounted)"

\* A faulty queue: each update toggles the data instead of replacing it.
RECURSIVE ToggleDataUpdates(_, _)
ToggleDataUpdates(base, queue) ==
    IF queue = <<>> THEN base
    ELSE ToggleDataUpdates(IF base = "Data has changed!" THEN "This is the data!"
                           ELSE "Data has changed!", Tail(queue))

\* useState's update queue: a queued value replaces the state.
RECURSIVE ApplyDataUpdates(_, _)
ApplyDataUpdates(base, queue) ==
    IF queue = <<>> THEN base
    ELSE ApplyDataUpdates(Head(queue), Tail(queue))

\* A faulty lookup: one state shared by every provider instance.
SetDataTargetsShared(c) == Providers

\* The providers whose setData a consumer holds: React.useContext(dataContext)
\* yields the [data, setData] pair of the provider the consumer is under.
SetDataTargets(c) == {parent[c]}

\* What a consumer renders after "Data:": the data of its context value.
ConsumerView(value) == value

NoError == "no error"
NotIterable == "TypeError: undefined is not iterable"

\* A context created with a default pair instead of none.
DataContextDefaultPair == [kind |-> "array", data |-> "This is the data!"]

\* React.createContext(): no default value, so the default is undefined.
DataContextDefault == [kind |-> Undefined, data |-> Undefined]

\* <dataContext.Provider value={[data, setData]}>
ProvidedValue(d) == [kind |-> "array", data |-> d]

\* React.useContext(dataContext) for a consumer under provider p, or under
\* no provider when p is NoProvider.
UseDataContext(p) ==
    IF p = NoProvider THEN DataContextDefault ELSE ProvidedValue(data[p])

\* const [data, setData] = value: an array is destructured, undefined is
\* not iterable and the statement throws.
Destructure(value) ==
    IF value.kind = "array"
       THEN [error |-> NoError, data |-> value.data]
       ELSE [error |-> NotIterable, data |-> Undefined]

DataInit ==
    /\ data = [p \in Providers |-> InitialData]
    /\ dataQueue = [p \in Providers |-> <<>>]
    /\ parent = [c \in Consumers |-> Unmounted]
    /\ shown = [c \in Consumers |-> NothingShown]
    /\ dataClicks = [p \in Providers |-> 0]
    /\ outside = [c \in Consumers |-> FALSE]
    /\ renderError = [c \in Consumers |-> NoError]

\* A DataConsumer is mounted among the children of provider p and renders.
MountConsumer ==
    /\ \E c \in Consumers, p \in Providers :
          /\ parent[c] = Unmounted
          /\ parent' = [parent EXCEPT ![c] = p]
          /\ shown' = [shown EXCEPT ![c] = ConsumerView(data[p])]
          /\ outside' = [outside EXCEPT ![c] = FALSE]
          /\ renderError' =
                [renderError EXCEPT ![c] = Destructure(UseDataContext(p)).error]
    /\ UNCHANGED <<data, dataQueue, dataClicks, notData>>

\* A DataConsumer is rendered with no DataProvider above it: when the
\* destructuring throws, the render fails and nothing is displayed.
RenderConsumerOutside ==
    /\ \E c \in Consumers :
          LET result == Destructure(UseDataContext(NoProvider)) IN
          /\ parent[c] = Unmounted
          /\ ~outside[c]
          /\ outside' = [outside EXCEPT ![c] = TRUE]
          /\ renderError' = [renderError EXCEPT ![c] = result.error]
          /\ shown' = [shown EXCEPT ![c] =
                 IF result.error = NoError THEN ConsumerView(result.data)
                 ELSE NothingShown]
    /\ UNCHANGED <<data, dataQueue, parent, dataClicks, notData>>

UnmountConsumer ==
    /\ \E c \in Consumers :
          /\ parent[c] # Unmounted
          /\ parent' = [parent EXCEPT ![c] = Unmounted]
          /\ shown' = [shown EXCEPT ![c] = NothingShown]
    /\ UNCHANGED <<data, dataQueue, dataClicks, outside, renderError, notData>>

\* onClick={() => setData('Data has changed!')}: the update is scheduled.
ClickConsumer ==
    /\ \E c \in Consumers :
          /\ parent[c] # Unmounted
          /\ dataClicks[parent[c]] < MaxDataClicks
          /\ dataQueue' = [p \in Providers |->
                 IF p \in SetDataTargets(c)
                 THEN Append(dataQueue[p], ChangedData)
                 ELSE dataQueue[p]]
          /\ dataClicks' = [dataClicks EXCEPT ![parent[c]] = @ + 1]
    /\ UNCHANGED <<data, parent, shown, outside, renderError, notData>>

\* React renders provider p: useState applies the queue, the provider passes
\* a new [data, setData] value, and every consumer under it re-renders.
RenderProvider ==
    /\ \E p \in Providers :
          /\ dataQueue[p] # <<>>
          /\ data' = [data EXCEPT ![p] = ApplyDataUpdates(data[p], dataQueue[p])]
          /\ dataQueue' = [dataQueue EXCEPT ![p] = <<>>]
          /\ shown' = [c \in Consumers |->
                 IF parent[c] = p THEN ConsumerView(data'[p]) ELSE shown[c]]
    /\ UNCHANGED <<parent, dataClicks, outside, renderError, notData>>

DataNext ==
    \/ MountConsumer
    \/ RenderConsumerOutside
    \/ UnmountConsumer
    \/ ClickConsumer
    \/ RenderProvider

(***************************************************************************)
(* App: the counter button and the form built on React's useActionState    *)
(***************************************************************************)
MaxCountClicks == 3
MaxSubmits == 3

\* useState(0)
InitialCount == 0
\* username.length < 3
MinUsernameLength == 3

\* <input type="hidden" name="id" value={id} /> with const id = 1
FormIds == {"1"}
\* What the user may have typed into <input type="text" name="username" />.
Usernames == {"", "ab", "bob"}
FormData == [id : FormIds, username : Usernames]

Submissions == 1..MaxSubmits

\* useActionState(action, undefined): the state before any action returned.
UndefinedState == [kind |-> "undefined", success |-> FALSE, message |-> ""]
NotYet == [kind |-> "not-yet", success |-> FALSE, message |-> ""]

\* The object literals `action` returns.
Result(success, message) ==
    [kind |-> "result", success |-> success, message |-> message]

\* A faulty validation that also rejects usernames of exactly the minimum
\* length.
actionRejectsMinimum(preState, formData) ==
    LET username == formData.username
        id == formData.id
    IN  IF Len(username) <= MinUsernameLength
        THEN Result(FALSE, "Username must be at least 3 characters long")
        ELSE Result(TRUE, "User " \o id \o " updated to " \o username)

\* async function action(preState, formData), after its timer has fired.
action(preState, formData) ==
    LET username == formData.username
        id == formData.id
    IN  IF Len(username) < MinUsernameLength
        THEN Result(FALSE, "Username must be at least 3 characters long")
        ELSE Result(TRUE, "User " \o id \o " updated to " \o username)

\* A faulty update, computed from the rendered value: setCount(count + 1).
CounterUpdateFromRendered(prev, rendered) == rendered + 1

\* setCount((count) => count + 1): the updater, given the state it is applied
\* to (prev) and the count of the render whose handler queued it (rendered).
CounterUpdate(prev, rendered) == prev + 1

\* useState's update queue: n queued updaters applied in order at a render.
RECURSIVE ApplyCountUpdates(_, _, _)
ApplyCountUpdates(prev, rendered, n) ==
    IF n = 0 THEN prev
    ELSE ApplyCountUpdates(CounterUpdate(prev, rendered), rendered, n - 1)

\* <button type="submit">: whether the form can be submitted, given isPending.
\* The button carries no disabled attribute.
SubmitEnabled(pending) == TRUE

\* useActionState's pending flag, given the submissions not yet returned.
PendingFlag(queue) == queue # <<>>

\* A faulty label, with the two branches swapped.
ButtonLabelSwapped(pending) == IF pending THEN "Submit" ELSE "Submitting..."

\* {isPending ? "Submitting..." : "Submit"}
ButtonLabel(pending) == IF pending THEN "Submitting..." ELSE "Submit"

\* {state?.message && (<p className={...}>{state.message}</p>)}
MessageShown(st) == st.kind = "result" /\ st.message # ""
\* A faulty className with the two colours exchanged.
MessageClassSwapped(st) == IF st.success THEN "text-red-500" ELSE "text-green-500"
MessageClass(st) == IF st.success THEN "text-green-500" ELSE "text-red-500"

AppInit ==
    /\ count = InitialCount
    /\ countQueue = 0
    /\ countClicks = 0
    /\ countBatch = 0
    /\ state = UndefinedState
    /\ isPending = FALSE
    /\ hookState = UndefinedState
    /\ hookPending = FALSE
    /\ actionQueue = <<>>
    /\ nSubmitted = 0
    /\ runs = [i \in Submissions |-> 0]
    /\ returned = [i \in Submissions |-> NotYet]

\* A faulty click handler that also lowers the form's pending flag.
ClickCounterClearsPending ==
    /\ countClicks < MaxCountClicks
    /\ countQueue' = countQueue + 1
    /\ countClicks' = countClicks + 1
    /\ hookPending' = FALSE
    /\ UNCHANGED <<count, countBatch, state, isPending, hookState,
                   actionQueue, nSubmitted, runs, returned, notApp>>

\* onClick={() => setCount((count) => count + 1)}: the updater is queued.
ClickCounter ==
    /\ countClicks < MaxCountClicks
    /\ countQueue' = countQueue + 1
    /\ countClicks' = countClicks + 1
    /\ UNCHANGED <<count, countBatch, state, isPending, hookState, hookPending,
                   actionQueue, nSubmitted, runs, returned, notApp>>

\* The form is submitted: formAction(formData). The hook queues the action,
\* raises its pending flag and, when no earlier action is still running,
\* calls `action`, which starts its 1000 ms timer.
SubmitForm ==
    /\ nSubmitted < MaxSubmits
    /\ SubmitEnabled(isPending)
    /\ \E fd \in FormData :
          LET i == nSubmitted + 1 IN
          /\ actionQueue' = Append(actionQueue, [n |-> i, formData |-> fd])
          /\ nSubmitted' = i
          /\ runs' = IF actionQueue = <<>> THEN [runs EXCEPT ![i] = @ + 1] ELSE runs
          /\ hookPending' = PendingFlag(actionQueue')
    /\ UNCHANGED <<count, countQueue, countClicks, countBatch, state, isPending, hookState,
                   returned, notApp>>

\* The running action's timer fires: `action` validates the username and
\* returns; the hook takes the result as its state and calls `action` for the
\* next queued submission, or lowers its pending flag when there is none.
ActionReturns ==
    /\ actionQueue # <<>>
    /\ LET sub == Head(actionQueue)
           result == action(hookState, sub.formData)
           rest == Tail(actionQueue)
       IN  /\ returned' = [returned EXCEPT ![sub.n] = result]
           /\ hookState' = result
           /\ actionQueue' = rest
           /\ runs' = IF rest # <<>>
                      THEN [runs EXCEPT ![Head(rest).n] = @ + 1] ELSE runs
           /\ hookPending' = PendingFlag(rest)
    /\ UNCHANGED <<count, countQueue, countClicks, countBatch, state, isPending,
                   nSubmitted, notApp>>

\* Whether App's last render is behind the state its hooks hold.
RenderScheduled ==
    countQueue # 0 \/ state # hookState \/ isPending # hookPending

\* React renders App: useState applies the queued updaters and
\* useActionState hands out the hook's state and pending flag.
RenderApp ==
    /\ RenderScheduled
    /\ count' = ApplyCountUpdates(count, count, countQueue)
    /\ countQueue' = 0
    /\ countBatch' = countQueue
    /\ state' = hookState
    /\ isPending' = hookPending
    /\ UNCHANGED <<countClicks, hookState, hookPending, actionQueue,
                   nSubmitted, runs, returned, notApp>>

AppNext ==
    \/ ClickCounter
    \/ SubmitForm
    \/ ActionReturns
    \/ RenderApp

(***************************************************************************)
(* The documented custom hook useActionState (useState version)            *)
(***************************************************************************)
MaxCalls == 3

Calls == 1..MaxCalls
\* What actionFunction may resolve with, and what it may reject with.
ActionResults == {"r1", "r2"}
ActionErrors == {"e1", "e2"}

\* Object spread {...a, ...b}: b's properties override a's.
Spread(a, b) ==
    [k \in (DOMAIN a) \cup (DOMAIN b) |-> IF k \in DOMAIN b THEN b[k] ELSE a[k]]

\* {}: the default of the initialState parameter.
EmptyObject == [k \in {} |-> Null]

\* The initialState arguments considered: none, and { extraInfo: ... }.
InitialStates == {EmptyObject, [extraInfo |-> "info"]}

\* useState({ isLoading: false, data: null, error: null, ...initialState })
InitialHookState(init) ==
    Spread([isLoading |-> FALSE, data |-> Null, error |-> Null], init)

\* A faulty request update that leaves the previous error in place.
OnRequestKeepError(prev) == Spread(prev, [isLoading |-> TRUE])

\* setState(prev => ({ ...prev, isLoading: true, error: null }))
OnRequest(prev) == Spread(prev, [isLoading |-> TRUE, error |-> Null])

\* A faulty success update that does not store the result.
OnSuccessDropsResult(result) == [isLoading |-> FALSE, data |-> Null, error |-> Null]

\* setState({ isLoading: false, data: result, error: null })
OnSuccess(result) == [isLoading |-> FALSE, data |-> result, error |-> Null]

\* A faulty failure update that leaves the loading flag raised.
OnFailureStillLoading(error) == [isLoading |-> TRUE, data |-> Null, error |-> error]

\* setState({ isLoading: false, data: null, error })
OnFailure(error) == [isLoading |-> FALSE, data |-> Null, error |-> error]

\* return result: the promise executeAction returned resolves.
ExecuteActionReturn(result) == [kind |-> "resolved", value |-> result]

\* A faulty catch block that swallows the error: the promise resolves.
ExecuteActionSwallow(error) == [kind |-> "resolved", value |-> Undefined]

\* throw error: the promise executeAction returned rejects.
ExecuteActionThrow(error) == [kind |-> "rejected", value |-> error]

\* A faulty reducer case that spreads the previous state on success.
ReducerSuccessSpread(st, payload) ==
    Spread(st, [isLoading |-> FALSE, data |-> payload, error |-> Null])

\* case 'SUCCESS': return { isLoading: false, data: action.payload, error: null }
ReducerSuccess(st, payload) ==
    [isLoading |-> FALSE, data |-> payload, error |-> Null]

\* actionStateReducer(state, action), action = { type, payload }.
actionStateReducer(st, act) ==
    CASE act.type = "REQUEST" -> Spread(st, [isLoading |-> TRUE, error |-> Null])
      [] act.type = "SUCCESS" -> ReducerSuccess(st, act.payload)
      [] act.type = "FAILURE" ->
            [isLoading |-> FALSE, data |-> Null, error |-> act.payload]
      [] OTHER -> st

\* useReducer version: return result / throw error of its executeAction.
ReducerReturn(result) == [kind |-> "resolved", value |-> result]
ReducerThrow(error) == [kind |-> "rejected", value |-> error]

NoOutcome == [kind |-> "none", value |-> Null]
IdleCall == [pc |-> "idle", outcome |-> NoOutcome, settled |-> NoOutcome]

\* The component calls useActionState(actionFunction, initialState).
UasInit ==
    /\ initialState \in InitialStates
    /\ uasState = InitialHookState(initialState)
    /\ uasCalls = [c \in Calls |-> IdleCall]
    /\ redState = InitialHookState(initialState)
    /\ redSettled = [c \in Calls |-> NoOutcome]
    /\ settleOrder = <<>>

\* The hook as the other subsystems' specifications hold it: never called.
UasUnused ==
    /\ initialState = EmptyObject
    /\ uasState = InitialHookState(initialState)
    /\ uasCalls = [c \in Calls |-> IdleCall]
    /\ redState = InitialHookState(initialState)
    /\ redSettled = [c \in Calls |-> NoOutcome]
    /\ settleOrder = <<>>

\* executeAction(...args) is called: the request update, then actionFunction
\* is called and awaited. (The useReducer version of the hook is driven by the
\* same calls and outcomes: it dispatches where the useState version sets.)
ExecuteAction ==
    /\ \E c \in Calls :
          /\ uasCalls[c].pc = "idle"
          /\ \A b \in Calls : b < c => uasCalls[b].pc # "idle"
          /\ uasState' = OnRequest(uasState)
          /\ uasCalls' = [uasCalls EXCEPT ![c].pc = "pending"]
          /\ redState' = actionStateReducer(redState, [type |-> "REQUEST", payload |-> Null])
    /\ UNCHANGED <<initialState, redSettled, settleOrder, notUas>>

\* The promise of actionFunction resolves with r: the try block continues.
ActionResolves ==
    /\ \E c \in Calls, r \in ActionResults :
          /\ uasCalls[c].pc = "pending"
          /\ uasState' = OnSuccess(r)
          /\ uasCalls' = [uasCalls EXCEPT ![c] =
                 [pc |-> "settled",
                  outcome |-> [kind |-> "resolved", value |-> r],
                  settled |-> ExecuteActionReturn(r)]]
          /\ redState' = actionStateReducer(redState, [type |-> "SUCCESS", payload |-> r])
          /\ redSettled' = [redSettled EXCEPT ![c] = ReducerReturn(r)]
          /\ settleOrder' = Append(settleOrder, c)
    /\ UNCHANGED <<initialState, notUas>>

\* The promise of actionFunction rejects with e: the catch block runs.
ActionRejects ==
    /\ \E c \in Calls, e \in ActionErrors :
          /\ uasCalls[c].pc = "pending"
          /\ uasState' = OnFailure(e)
          /\ uasCalls' = [uasCalls EXCEPT ![c] =
                 [pc |-> "settled",
                  outcome |-> [kind |-> "rejected", value |-> e],
                  settled |-> ExecuteActionThrow(e)]]
          /\ redState' = actionStateReducer(redState, [type |-> "FAILURE", payload |-> e])
          /\ redSettled' = [redSettled EXCEPT ![c] = ReducerThrow(e)]
          /\ settleOrder' = Append(settleOrder, c)
    /\ UNCHANGED <<initialState, notUas>>

UasNext ==
    \/ ExecuteAction
    \/ ActionResolves
    \/ ActionRejects

(***************************************************************************)
(* The documented optimistic-update example: useActionState with addComment *)
(***************************************************************************)
MaxComments == 5

\* The comments the button may add, by their id (Date.now()).
CommentIds == 1..MaxComments

\* [...prevState.comments, { ...newComment, status: "pending" }]
OptimisticComments(prevComments, c) ==
    Append(prevComments, [id |-> c, status |-> "pending"])

\* optimisticComments.map(c => ({ ...c, status: "confirmed" }))
Confirmed(cs) ==
    [k \in DOMAIN cs |-> [cs[k] EXCEPT !.status = "confirmed"]]

\* The try branch: saveCommentToServer resolved.
\* return { comments: optimisticComments.map(...) }
OnCommentSaved(prevComments, c) ==
    Confirmed(OptimisticComments(prevComments, c))

\* A faulty catch branch that returns the optimistic list.
OnCommentFailedKeep(prevComments, c) == OptimisticComments(prevComments, c)

\* The catch branch: saveCommentToServer rejected.
\* return { comments: prevState.comments }
OnCommentFailed(prevComments, c) == prevComments

\* useActionState(..., { comments: [] })
ComInit ==
    /\ commentState = <<>>
    /\ commentQueue = <<>>
    /\ commentOutcome = [c \in CommentIds |-> "none"]

\* onClick={() => addComment({ id: Date.now(), text: "New comment" })}: the
\* hook queues the action and runs it once the earlier actions have returned;
\* the running action builds optimisticComments and awaits the save.
AddComment ==
    /\ \E c \in CommentIds :
          /\ commentOutcome[c] = "none"
          /\ \A b \in CommentIds : b < c => commentOutcome[b] # "none"
          /\ commentQueue' = Append(commentQueue, c)
          /\ commentOutcome' = [commentOutcome EXCEPT ![c] = "running"]
    /\ UNCHANGED <<commentState, notCom>>

\* saveCommentToServer resolves for the running action, which returns.
SaveResolves ==
    /\ commentQueue # <<>>
    /\ LET c == Head(commentQueue) IN
          /\ commentState' = OnCommentSaved(commentState, c)
          /\ commentOutcome' = [commentOutcome EXCEPT ![c] = "saved"]
    /\ commentQueue' = Tail(commentQueue)
    /\ UNCHANGED notCom

\* saveCommentToServer rejects for the running action, which returns.
SaveRejects ==
    /\ commentQueue # <<>>
    /\ LET c == Head(commentQueue) IN
          /\ commentState' = OnCommentFailed(commentState, c)
          /\ commentOutcome' = [commentOutcome EXCEPT ![c] = "failed"]
    /\ commentQueue' = Tail(commentQueue)
    /\ UNCHANGED notCom

ComNext ==
    \/ AddComment
    \/ SaveResolves
    \/ SaveRejects

(***************************************************************************)
(* The documented UserProfile component: fetch in an effect with [userId]   *)
(***************************************************************************)
MaxFetches == 4

Users == {"u1", "u2", "u3"}

\* The JSON the server answers for /users/${userId}.
Profile(u) == "profile of " \o u

FetchError == "HTTP error"

\* The effect body: setLoading(true); setError(null); fetchData().
\* The fetch it starts is remembered with the userId of its closure.
StartFetch(u) ==
    /\ loading' = TRUE
    /\ profileError' = Null
    /\ nFetches' = nFetches + 1
    /\ fetches' = fetches \cup {[n |-> nFetches + 1, user |-> u]}

\* The component has mounted with the initial states of its three useState
\* calls and its effect has run once for the first userId.
UpInit ==
    /\ userId = "u1"
    /\ userData = Null
    /\ loading = TRUE
    /\ profileError = Null
    /\ nFetches = 1
    /\ fetches = {[n |-> 1, user |-> "u1"]}

\* The parent renders UserProfile with another userId: the dependency
\* changed, so the effect runs again.  The effect returns no cleanup, so
\* the fetches started earlier stay in flight.
SelectUser ==
    /\ nFetches < MaxFetches
    /\ \E u \in Users \ {userId} :
          /\ userId' = u
          /\ StartFetch(u)
    /\ UNCHANGED <<userData, notUp>>

\* A fetch resolves with an ok response: setUserData(json), then the
\* finally block's setLoading(false).
FetchSucceeds ==
    /\ \E f \in fetches :
          /\ userData' = Profile(f.user)
          /\ fetches' = fetches \ {f}
    /\ loading' = FALSE
    /\ UNCHANGED <<userId, profileError, nFetches, notUp>>

\* A fetch rejects or its response is not ok: setError(error), then the
\* finally block's setLoading(false).
FetchFails ==
    /\ \E f \in fetches : fetches' = fetches \ {f}
    /\ profileError' = FetchError
    /\ loading' = FALSE
    /\ UNCHANGED <<userId, userData, nFetches, notUp>>

UpNext ==
    \/ SelectUser
    \/ FetchSucceeds
    \/ FetchFails

(***************************************************************************)
(* The documented effects with cleanup: a timer set up in useEffect         *)
(***************************************************************************)
MaxTimers == 4
MaxTime == 3

DepsKinds == {"[]", "[dep]"}
DepValues == {"a", "b"}

\* A faulty cleanup that leaves the interval running.
CleanupKeepsInterval(active, id) == active

\* return () => { clearInterval(intervalId); }
Cleanup(active, id) == active \ {id}

\* const intervalId = setInterval(...): the effect body.
SetupTimer(active) ==
    /\ nTimers' = nTimers + 1
    /\ intervalId' = nTimers + 1
    /\ timers' = active \cup {nTimers + 1}

\* Whether a render with dependency value d re-runs the effect.
DepsChanged(kind, old, new) == kind = "[dep]" /\ old # new

\* The component is not mounted yet; no interval has been set.
TimerInit ==
    /\ timerMounted = FALSE
    /\ timerDeps = "[]"
    /\ dep = "a"
    /\ time = 0
    /\ intervalId = 0
    /\ timers = {}
    /\ nTimers = 0
    /\ lateUpdates = 0

\* The component mounts: first render with useState(0), then the effect
\* runs and sets the interval.
MountTimer ==
    /\ ~timerMounted
    /\ nTimers < MaxTimers
    /\ timerMounted' = TRUE
    /\ timerDeps' \in DepsKinds
    /\ dep' \in DepValues
    /\ time' = 0
    /\ SetupTimer(timers)
    /\ UNCHANGED <<lateUpdates, notTimer>>

\* The parent re-renders the component with another dependency value: when
\* the dependency array holds it, the previous cleanup runs and then the
\* effect runs again; with [] the effect is left alone.
RerenderTimer ==
    /\ timerMounted
    /\ \E d \in DepValues \ {dep} :
          /\ dep' = d
          /\ IF DepsChanged(timerDeps, dep, d)
                THEN /\ nTimers < MaxTimers
                     /\ SetupTimer(Cleanup(timers, intervalId))
                ELSE UNCHANGED <<intervalId, timers, nTimers>>
    /\ UNCHANGED <<timerMounted, timerDeps, time, lateUpdates, notTimer>>

\* An interval that has not been cleared fires: setTime(prevTime => prevTime + 1).
Tick ==
    /\ timers # {}
    /\ IF timerMounted
          THEN /\ time < MaxTime
               /\ time' = time + 1
               /\ UNCHANGED lateUpdates
          ELSE /\ lateUpdates < MaxTime
               /\ lateUpdates' = lateUpdates + 1
               /\ UNCHANGED time
    /\ UNCHANGED <<timerMounted, timerDeps, dep, intervalId, timers, nTimers,
                   notTimer>>

\* The component unmounts: the cleanup of the last effect run is called.
UnmountTimer ==
    /\ timerMounted
    /\ timerMounted' = FALSE
    /\ timers' = Cleanup(timers, intervalId)
    /\ UNCHANGED <<timerDeps, dep, time, intervalId, nTimers, lateUpdates,
                   notTimer>>

TimerNext ==
    \/ MountTimer
    \/ RerenderTimer
    \/ Tick
    \/ UnmountTimer

(***************************************************************************)
(* The documented effects that set state: CorrectEffectComponent and        *)
(* InfiniteLoopComponent                                                    *)
(***************************************************************************)
MaxRenders == 5

\* useState(0)
EffectInitialCount == 0
\* if (count < 10)
CountLimit == 10

\* A faulty condition that lets the update through at the limit.
ShouldIncrementAtLimit(c) == c <= CountLimit

\* if (count < 10): the condition the effect tests on the rendered count.
ShouldIncrement(c) == c < CountLimit

\* setCount(prevCount => prevCount + 1): applied to the hook's state.
FunctionalIncrement(prev, rendered) == prev + 1

\* setCount(count + 1): computed from the count the effect closed over.
ClosureIncrement(prev, rendered) == rendered + 1

\* Whether a render re-runs an effect with dependency array [count].
CountDepChanged(old, new) == old # new

\* Both components have rendered once with count 0; after the first render
\* every effect is scheduled.
EffInit ==
    /\ corCount = EffectInitialCount
    /\ corState = EffectInitialCount
    /\ corEffectDue = TRUE
    /\ loopCount = EffectInitialCount
    /\ loopState = EffectInitialCount
    /\ loopEffectDue = TRUE
    /\ loopRenders = 1

\* CorrectEffectComponent's effect runs.
CorrectEffect ==
    /\ corEffectDue
    /\ corEffectDue' = FALSE
    /\ corState' = IF ShouldIncrement(corCount)
                      THEN FunctionalIncrement(corState, corCount)
                      ELSE corState
    /\ UNCHANGED <<corCount, loopCount, loopState, loopEffectDue, loopRenders,
                   notEff>>

\* The state update re-renders CorrectEffectComponent; the effect is
\* scheduled again when count, its dependency, changed.
CorrectRender ==
    /\ ~corEffectDue
    /\ corState # corCount
    /\ corCount' = corState
    /\ corEffectDue' = CountDepChanged(corCount, corState)
    /\ UNCHANGED <<corState, loopCount, loopState, loopEffectDue, loopRenders,
                   notEff>>

\* InfiniteLoopComponent's effect runs.
LoopEffect ==
    /\ loopEffectDue
    /\ loopEffectDue' = FALSE
    /\ loopState' = ClosureIncrement(loopState, loopCount)
    /\ UNCHANGED <<loopCount, loopRenders, corCount, corState, corEffectDue,
                   notEff>>

\* The state update re-renders InfiniteLoopComponent; its dependency array
\* is [], so no render after the first schedules the effect.
LoopRender ==
    /\ ~loopEffectDue
    /\ loopState # loopCount
    /\ loopCount' = loopState
    /\ loopRenders' = loopRenders + 1
    /\ UNCHANGED <<loopState, loopEffectDue, corCount, corState, corEffectDue,
                   notEff>>

\* The parent re-renders InfiniteLoopComponent.
LoopParentRender ==
    /\ ~loopEffectDue
    /\ loopRenders < MaxRenders
    /\ loopCount' = loopState
    /\ loopRenders' = loopRenders + 1
    /\ UNCHANGED <<loopState, loopEffectDue, corCount, corState, corEffectDue,
                   notEff>>

EffNext ==
    \/ CorrectEffect
    \/ CorrectRender
    \/ LoopEffect
    \/ LoopRender
    \/ LoopParentRender

(***************************************************************************)
(* The documented list of people: elements tied to index keys and id keys   *)
(***************************************************************************)
MaxListRenders == 6

People == {"Bob", "Joe", "Fred"}

Range(list) == {list[k] : k \in DOMAIN list}

\* The list without its k-th item.
RemoveAt(list, k) ==
    [j \in 1..(Len(list) - 1) |-> IF j < k THEN list[j] ELSE list[j + 1]]

\* The list with item i inserted at position k.
InsertAt(list, k, i) ==
    [j \in 1..(Len(list) + 1) |->
        IF j < k THEN list[j] ELSE IF j = k THEN i ELSE list[j - 1]]

\* The list with its j-th and k-th items exchanged.
Swap(list, j, k) ==
    [list EXCEPT ![j] = list[k], ![k] = list[j]]

\* A reconciliation that recreates every element on every render.
ReconcileByIndexRemount(old, list) ==
    [k \in 1..Len(list) |-> list[k]]

\* Rendering the list with key = index: the element with key k is kept when
\* the previous render had an element with key k, and created for the item
\* now at position k otherwise; elements whose key is gone are removed.
ReconcileByIndex(old, list) ==
    [k \in 1..Len(list) |-> IF k \in DOMAIN old THEN old[k] ELSE list[k]]

\* Rendering the list with key = id: the element with key i is kept when
\* the previous render had an element with key i, and created otherwise.
ReconcileById(old, list) ==
    [i \in Range(list) |-> IF i \in DOMAIN old THEN old[i] ELSE i]

\* The item whose state the element rendered at each position holds.
IndexKeyAssociation == [k \in 1..Len(items) |-> indexElements[k]]
IdKeyAssociation == [k \in 1..Len(items) |-> idElements[items[k]]]

\* The list of the example has been rendered once.
ListInit ==
    /\ items = <<"Bob", "Joe", "Fred">>
    /\ indexElements = ReconcileByIndex(<<>>, items)
    /\ idElements = ReconcileById(<<>>, items)
    /\ listRenders = 1
    /\ listChanged = FALSE

\* The list is rendered as newList, under both keying strategies.
RenderList(newList) ==
    /\ listRenders < MaxListRenders
    /\ listRenders' = listRenders + 1
    /\ items' = newList
    /\ indexElements' = ReconcileByIndex(indexElements, newList)
    /\ idElements' = ReconcileById(idElements, newList)

\* The unchanged list is rendered again.
RerenderList ==
    /\ RenderList(items)
    /\ UNCHANGED <<listChanged, notList>>

\* An item is removed (the list is filtered) and the list rendered.
RemoveItem ==
    /\ \E k \in DOMAIN items : RenderList(RemoveAt(items, k))
    /\ listChanged' = TRUE
    /\ UNCHANGED notList

\* The list is reordered and rendered.
ReorderList ==
    /\ \E j, k \in DOMAIN items : j < k /\ RenderList(Swap(items, j, k))
    /\ listChanged' = TRUE
    /\ UNCHANGED notList

\* A person who is not in the list is added to it and the list rendered.
AddItem ==
    /\ \E i \in People \ Range(items), k \in 1..(Len(items) + 1) :
          RenderList(InsertAt(items, k, i))
    /\ listChanged' = TRUE
    /\ UNCHANGED notList

ListNext ==
    \/ RerenderList
    \/ RemoveItem
    \/ ReorderList
    \/ AddItem

(***************************************************************************)
(* `action` called on its own, for every previous state and form data       *)
(***************************************************************************)
\* The values the two form entries may hold; an entry the form lacks is read
\* as null by formData.get.
CallIds == {"1", "2", "42"}
CallUsernames == {"", "a", "ab", "abc", "abcd", "bob smith"}
CallFormData == [id : CallIds, username : CallUsernames, hasUsername : BOOLEAN]

\* The previous states the hook may pass: undefined, or an earlier result.
CallPreStates ==
    {UndefinedState,
     Result(FALSE, "Username must be at least 3 characters long"),
     Result(TRUE, "User 1 updated to bob")}

NotCalled == [kind |-> "not-called", value |-> UndefinedState]

\* The promise `action` returns: fulfilled with the returned object, or
\* rejected with the TypeError of username.length when username is null.
CallOutcome(preState, formData) ==
    IF formData.hasUsername
       THEN [kind |-> "returned", value |-> action(preState, formData)]
       ELSE [kind |-> "threw", value |-> UndefinedState]

CallInit ==
    /\ callPreState = UndefinedState
    /\ callFormData = [id |-> "1", username |-> "", hasUsername |-> TRUE]
    /\ callOutcome = NotCalled

\* The arguments of the next call are chosen.
ChooseArguments ==
    /\ callPreState' \in CallPreStates
    /\ callFormData' \in CallFormData
    /\ callOutcome' = NotCalled
    /\ UNCHANGED notCall

\* action(preState, formData) is called and settles.
CallAction ==
    /\ callOutcome = NotCalled
    /\ callOutcome' = CallOutcome(callPreState, callFormData)
    /\ UNCHANGED <<callPreState, callFormData, notCall>>

CallNext ==
    \/ ChooseArguments
    \/ CallAction

(***************************************************************************)
(* The documented ChatApp example: handleSubmit awaits sendMessage          *)
(***************************************************************************)
MaxSends == 4

SendCalls == 1..MaxSends

\* { text: message, status: ... }; the c-th call's message is told apart by c.
Message(c, status) == [text |-> c, status |-> status]

IdleSend == [pc |-> "idle", closure |-> <<>>]

\* useState([]) and useOptimistic(messages) at the first render.
ChatInit ==
    /\ messages = <<>>
    /\ renderedMessages = <<>>
    /\ optimisticMessages = <<>>
    /\ sends = [c \in SendCalls |-> IdleSend]
    /\ nSends = 0

\* onClick={() => handleSubmit('Hello!')}: handleSubmit is the function of
\* the last render, so `messages` in it is that render's value. It adds the
\* optimistic entry and awaits sendMessage.
HandleSubmit ==
    /\ nSends < MaxSends
    /\ nSends' = nSends + 1
    /\ optimisticMessages' =
          Append(renderedMessages, Message(nSends + 1, "sending"))
    /\ sends' = [sends EXCEPT ![nSends + 1] =
                    [pc |-> "awaiting", closure |-> renderedMessages]]
    /\ UNCHANGED <<messages, renderedMessages, notChat>>

\* sendMessage resolves for call c, which continues with
\* setMessages([...messages, { text: message, status: 'sent' }]).
SendResolves ==
    /\ \E c \in SendCalls :
          /\ sends[c].pc = "awaiting"
          /\ messages' = Append(sends[c].closure, Message(c, "sent"))
          /\ sends' = [sends EXCEPT ![c].pc = "done"]
    /\ UNCHANGED <<renderedMessages, optimisticMessages, nSends, notChat>>

\* React renders ChatApp with the messages the state hook holds; with no
\* call awaiting, useOptimistic hands out messages itself.
RenderChat ==
    /\ renderedMessages # messages
    /\ renderedMessages' = messages
    /\ optimisticMessages' =
          IF \A c \in SendCalls : sends[c].pc # "awaiting"
             THEN messages ELSE optimisticMessages
    /\ UNCHANGED <<messages, sends, nSends, notChat>>

ChatNext ==
    \/ HandleSubmit
    \/ SendResolves
    \/ RenderChat

(***************************************************************************)
(* Specifications                                                          *)
(***************************************************************************)
Init == ThemeInit /\ DataInit /\ AppInit /\ UasUnused /\ ComInit /\ UpInit
        /\ TimerInit /\ EffInit /\ ListInit /\ CallInit
        /\ ChatInit

\* App
Next == AppNext
Spec == Init /\ [][Next]_vars

\* App, with the timer of a running action eventually firing and a scheduled
\* render eventually happening.
FairSpec == Spec /\ WF_vars(ActionReturns) /\ WF_vars(RenderApp)

SpecTheme == Init /\ [][ThemeNext]_vars
SpecData  == Init /\ [][DataNext]_vars
InitHook  == ThemeInit /\ DataInit /\ AppInit /\ UasInit /\ ComInit /\ UpInit
        /\ TimerInit /\ EffInit /\ ListInit /\ CallInit
        /\ ChatInit
SpecHook  == InitHook /\ [][UasNext]_vars
SpecComments == Init /\ [][ComNext]_vars
SpecProfile == Init /\ [][UpNext]_vars
SpecTimer == Init /\ [][TimerNext]_vars
SpecEffect == Init /\ [][EffNext]_vars
SpecList == Init /\ [][ListNext]_vars
SpecAction == Init /\ [][CallNext]_vars
SpecChat == Init /\ [][ChatNext]_vars

(***************************************************************************)
(* Properties                                                              *)
(***************************************************************************)

\* C1: useThemeContext throws whenever no ThemeContext provider is above the
\* caller, and returns the provided value, without throwing, whenever one is.
C1_ThrowsIffNoProvider ==
    themeCall.called =>
        IF themeCall.provided
        THEN themeCall.result = [kind |-> "returned", value |-> themeCall.nearest]
        ELSE themeCall.result.kind = "threw"

\* Clicks of provider p's consumers whose update p has rendered.
RenderedDataClicks(p) == dataClicks[p] - Len(dataQueue[p])

\* C2: every mounted DataConsumer displays the current data of its provider;
\* that data is 'This is the data!' until the first click of one of the
\* provider's consumers has been rendered and 'Data has changed!' ever after,
\* whatever further clicks follow (a click's update is rendered by the render
\* React schedules for it, so the data a provider holds with its scheduled
\* updates applied is 'Data has changed!' from the first click on).
C2_ConsumersShowProviderData ==
    /\ \A c \in Consumers :
          parent[c] # Unmounted => shown[c] = data[parent[c]]
    /\ \A p \in Providers :
          /\ data[p] = IF RenderedDataClicks(p) = 0 THEN InitialData ELSE ChangedData
          /\ ApplyDataUpdates(data[p], dataQueue[p]) =
                 IF dataClicks[p] = 0 THEN InitialData ELSE ChangedData

C2_Witness ==
    \E p \in Providers :
        /\ dataClicks[p] >= 2
        /\ dataQueue[p] = <<>>
        /\ data[p] = ChangedData
        /\ \E c, d \in Consumers :
              c # d /\ parent[c] = p /\ parent[d] = p
              /\ shown[c] = ChangedData /\ shown[d] = ChangedData

\* C3: each click of App's counter button increases count by exactly 1: every
\* click handled so far is either in the displayed count or a queued updater,
\* so once the scheduled render has run the displayed count is the number of
\* clicks, also when the render applies several queued updaters at once.
C3_CountIsClicks ==
    /\ count + countQueue = countClicks
    /\ countQueue = 0 => count = countClicks

C3_Witness ==
    /\ countBatch >= 2
    /\ countQueue = 0
    /\ countClicks >= 2
    /\ count = countClicks

\* C4: the data state belongs to one DataProvider instance: a step that
\* changes the data (or the scheduled updates) of provider q leaves every
\* consumer still under q displaying q's data, and leaves the data, the
\* scheduled updates and the consumers' display of every other provider
\* unchanged.
C4_DataScopedToProvider ==
    [][\A q \in Providers :
         (data'[q] # data[q] \/ dataQueue'[q] # dataQueue[q]) =>
            /\ \A c \in Consumers : parent'[c] = q => shown'[c] = data'[q]
            /\ \A p \in Providers \ {q} :
                  /\ data'[p] = data[p]
                  /\ dataQueue'[p] = dataQueue[p]
                  /\ \A c \in Consumers :
                        parent[c] = p => shown'[c] = shown[c]]_vars

C4_Witness ==
    /\ dataClicks["provider-1"] > 0 /\ data["provider-1"] = ChangedData
    /\ dataClicks["provider-2"] = 0 /\ data["provider-2"] = InitialData
    /\ dataQueue["provider-2"] = <<>>
    /\ \E c, d, e \in Consumers :
          /\ c # d
          /\ parent[c] = "provider-1" /\ shown[c] = ChangedData
          /\ parent[d] = "provider-1" /\ shown[d] = ChangedData
          /\ parent[e] = "provider-2" /\ shown[e] = InitialData

\* The submissions whose action has not returned yet.
Unreturned == {i \in 1..nSubmitted : returned[i] = NotYet}

C5_Invariant ==
    /\ \A i \in Submissions :
          /\ runs[i] <= 1
          /\ returned[i] # NotYet => runs[i] = 1
          /\ i > nSubmitted => runs[i] = 0 /\ returned[i] = NotYet
    /\ {actionQueue[k].n : k \in 1..Len(actionQueue)} = Unreturned
    /\ actionQueue # <<>> => runs[Head(actionQueue).n] = 1
    /\ hookPending <=> Unreturned # {}
    /\ ~RenderScheduled =>
          /\ ButtonLabel(isPending) = "Submitting..." <=> Unreturned # {}
          /\ ButtonLabel(isPending) = "Submit" <=> Unreturned = {}

C5_Step ==
    \A i \in Submissions :
        (returned[i] = NotYet /\ returned'[i] # NotYet) =>
            /\ hookState' = returned'[i]
            /\ runs'[i] = 1

\* C5: every submission of App's form runs the action exactly once and is
\* neither cancelled nor retried; once App has rendered, the submit button
\* reads 'Submitting...' exactly while a submitted action has not returned
\* and 'Submit' otherwise; and every submission eventually returns, its
\* result becoming the form state.
C5_EverySubmissionRunsOnceAndReturns ==
    /\ []C5_Invariant
    /\ [][C5_Step]_vars
    /\ \A i \in Submissions : (nSubmitted >= i) ~> (returned[i] # NotYet)

C5_Witness ==
    /\ nSubmitted >= 2
    /\ Unreturned = {}
    /\ \A i \in 1..nSubmitted : runs[i] = 1
    /\ ~RenderScheduled
    /\ state = returned[nSubmitted]
    /\ ButtonLabel(isPending) = "Submit"

\* C6: in App's form, while a submission is pending a second submission
\* cannot be started: never are two submissions waiting for their action to
\* return.
C6_NoSubmissionWhilePending == Cardinality(Unreturned) <= 1

\* C7: the custom hook follows its state transition table: calling
\* executeAction from isLoading=false gives isLoading=true and error=null;
\* when actionFunction resolves with r the state becomes isLoading=false,
\* data=r, error=null; when it rejects with e the state becomes
\* isLoading=false, data=null, error=e.
C7_TransitionTable ==
    [][\A c \in Calls :
         /\ (uasCalls[c].pc = "idle" /\ uasCalls'[c].pc = "pending"
                /\ uasState["isLoading"] = FALSE) =>
               (uasState'["isLoading"] = TRUE /\ uasState'["error"] = Null)
         /\ (uasCalls[c].pc = "pending" /\ uasCalls'[c].outcome.kind = "resolved") =>
               /\ uasState'["isLoading"] = FALSE
               /\ uasState'["data"] = uasCalls'[c].outcome.value
               /\ uasState'["error"] = Null
         /\ (uasCalls[c].pc = "pending" /\ uasCalls'[c].outcome.kind = "rejected") =>
               /\ uasState'["isLoading"] = FALSE
               /\ uasState'["data"] = Null
               /\ uasState'["error"] = uasCalls'[c].outcome.value]_vars

C7_Witness ==
    /\ uasCalls[1].outcome.kind = "rejected"
    /\ uasCalls[2].outcome.kind = "resolved"
    /\ uasCalls[3].pc = "pending"
    /\ uasState["isLoading"] = TRUE
    /\ uasState["error"] = Null
    /\ uasState["data"] = uasCalls[2].outcome.value

\* C8: isLoading is true exactly while at least one executeAction call has
\* started and has not yet resolved or rejected.
C8_LoadingIffCallInFlight ==
    uasState["isLoading"] <=> (\E c \in Calls : uasCalls[c].pc = "pending")

\* C9: when actionFunction rejects with e, state.error is set to e and the
\* promise executeAction returned rejects with the same e; when it resolves
\* with r, that promise resolves with the r that is stored in state.data.
C9_OutcomePropagated ==
    [][\A c \in Calls :
         /\ (uasCalls[c].pc = "pending" /\ uasCalls'[c].outcome.kind = "rejected") =>
               /\ uasState'["error"] = uasCalls'[c].outcome.value
               /\ uasCalls'[c].settled =
                     [kind |-> "rejected", value |-> uasCalls'[c].outcome.value]
         /\ (uasCalls[c].pc = "pending" /\ uasCalls'[c].outcome.kind = "resolved") =>
               /\ uasState'["data"] = uasCalls'[c].outcome.value
               /\ uasCalls'[c].settled =
                     [kind |-> "resolved", value |-> uasState'["data"]]]_vars

C9_Witness ==
    \E c, d \in Calls :
        /\ uasCalls[c].settled.kind = "resolved"
        /\ uasCalls[d].settled.kind = "rejected"
        /\ uasCalls[d].settled.value = uasState["error"]
        /\ \A b \in Calls : uasCalls[b].pc # "pending"

\* C10: the additional properties given through initialState are in the
\* hook's state, with their values, in every later state.
C10_ExtraPropertiesKept ==
    \A k \in (DOMAIN initialState) \ {"isLoading", "data", "error"} :
        k \in DOMAIN uasState /\ uasState[k] = initialState[k]

\* C11: the useReducer version of the hook is equivalent to the useState
\* version: given the same initialState and the same calls, resolutions and
\* rejections, both hold the same state after every step and their
\* executeAction calls return or throw the same values.
C11_ReducerVersionEquivalent ==
    /\ redState = uasState
    /\ \A c \in Calls : redSettled[c] = uasCalls[c].settled

C11_Witness ==
    /\ DOMAIN initialState # {}
    /\ \E c, d \in Calls :
          /\ uasCalls[c].settled.kind = "rejected"
          /\ uasCalls[d].settled.kind = "resolved"
    /\ \E c \in Calls : uasCalls[c].pc = "pending"
    /\ redState["isLoading"] = TRUE

\* Whether the list cs holds comment c with the given status.
HasComment(cs, c, status) ==
    \E k \in DOMAIN cs : cs[k].id = c /\ cs[k].status = status

\* C12: in the optimistic-update example the UI is updated before
\* confirmation: after addComment(c) and before saveCommentToServer settles,
\* state.comments contains c with status 'pending'.
C12_PendingCommentInState ==
    \A k \in DOMAIN commentQueue :
        HasComment(commentState, commentQueue[k], "pending")

\* C13: in the optimistic-update example, when saveCommentToServer rejects,
\* state.comments after the action equals state.comments before it (the new
\* comment is absent); when it resolves, the new comment is present and
\* every comment of the list has status 'confirmed'.
C13_RevertOnFailure ==
    [][\A c \in CommentIds :
         /\ (commentOutcome[c] = "running" /\ commentOutcome'[c] = "failed") =>
               /\ commentState' = commentState
               /\ \A k \in DOMAIN commentState' : commentState'[k].id # c
         /\ (commentOutcome[c] = "running" /\ commentOutcome'[c] = "saved") =>
               /\ HasComment(commentState', c, "confirmed")
               /\ \A k \in DOMAIN commentState' :
                     commentState'[k].status = "confirmed"
               /\ Len(commentState') = Len(commentState) + 1]_vars

C13_Witness ==
    /\ commentOutcome[1] = "saved"
    /\ commentOutcome[2] = "failed"
    /\ commentOutcome[3] = "saved"
    /\ commentQueue = <<>>
    /\ Len(commentState) = 2
    /\ HasComment(commentState, 1, "confirmed")
    /\ HasComment(commentState, 3, "confirmed")

\* C14: in UserProfile, whenever loading is false and there is no error,
\* userData is the response fetched for the current userId, also when the
\* userId changes while an earlier fetch is still pending, whichever fetch
\* completes first.
C14_DataIsForCurrentUser ==
    (~loading /\ profileError = Null) => userData = Profile(userId)

\* C15: in the effect-with-cleanup examples the cleanup runs before the
\* effect runs again and on unmount, so at most one timer (subscription,
\* listener) is active at any time, and after the unmount none is active
\* and no state update is made.
C15_AtMostOneTimer ==
    /\ Cardinality(timers) <= 1
    /\ timerMounted => timers = {intervalId}
    /\ ~timerMounted => timers = {}
    /\ lateUpdates = 0

C15_Witness ==
    /\ ~timerMounted
    /\ timerDeps = "[dep]"
    /\ nTimers = MaxTimers
    /\ time = MaxTime

\* CorrectEffectComponent has nothing left to do: no effect is scheduled and
\* no state update awaits a render.
CorrectAtRest == ~corEffectDue /\ corState = corCount

\* C16: in CorrectEffectComponent every effect run increases count by
\* exactly 1 until it is 10; count never exceeds 10, the component only
\* comes to rest at 10, and at 10 an effect run updates nothing.
C16_CountsToTen ==
    /\ [](/\ corCount <= CountLimit
          /\ corState <= CountLimit
          /\ CorrectAtRest => corCount = CountLimit)
    /\ [][(corEffectDue /\ ~corEffectDue') =>
            /\ corCount < CountLimit => corState' = corCount + 1
            /\ corCount = CountLimit => corState' = corState]_vars
    /\ [][corCount' # corCount => corCount' = corCount + 1]_vars

C16_Witness == CorrectAtRest /\ corCount = CountLimit

\* C17: InfiniteLoopComponent never comes to rest: every state update
\* triggers a render and every render runs the effect again, so there is
\* always an effect or a render outstanding.
C17_InfiniteRenderLoop == loopEffectDue \/ loopState # loopCount

\* The list of the last render and the one before it hold the same items in
\* another order, or one item fewer.
Reordered == Len(items') = Len(items) /\ items' # items
Removed == Len(items') = Len(items) - 1
RemovedLast == items' = SubSeq(items, 1, Len(items) - 1)

\* While the list has stayed static, index keys associate every element
\* (and its state) with the item it was created for, exactly as id keys do.
StaticListSafe ==
    ~listChanged =>
        /\ IndexKeyAssociation = items
        /\ IdKeyAssociation = items

\* C18 (as stated): index keys are safe for a static list, and when an item
\* is removed or the list reordered, index keys and id keys associate
\* element state with different items.
C18_AnyChangeSeparatesKeys ==
    /\ []StaticListSafe
    /\ [][(Removed \/ Reordered) =>
            IndexKeyAssociation' # IdKeyAssociation']_vars

\* C18 (amended): index keys are safe for a static list; starting from a
\* render in which both keyings associate the same items, removing an item
\* other than the last one, or reordering the list, makes index keys and
\* id keys associate element state with different items, while removing
\* the last item leaves the two associations equal.
C18_ChangeSeparatesKeys ==
    /\ []StaticListSafe
    /\ [][(/\ IndexKeyAssociation = IdKeyAssociation
           /\ (Removed /\ ~RemovedLast) \/ Reordered) =>
            IndexKeyAssociation' # IdKeyAssociation']_vars
    /\ [][(IndexKeyAssociation = IdKeyAssociation /\ RemovedLast) =>
            IndexKeyAssociation' = IdKeyAssociation']_vars

C18_Witness ==
    /\ items = <<"Joe", "Fred">>
    /\ IndexKeyAssociation = <<"Bob", "Joe">>
    /\ IdKeyAssociation = <<"Joe", "Fred">>

\* The usernames of CallUsernames that have fewer than 3 characters.
TooShort == {"", "a", "ab"}

\* C19: whatever the previous state, `action` called with a username string
\* returns {success: false, message: 'Username must be at least 3
\* characters long'} when the username has fewer than 3 characters (the
\* empty string included) and {success: true, message: 'User <id> updated
\* to <username>'} otherwise; it returns in both cases and never throws.
C19_ActionValidatesUsername ==
    (callOutcome # NotCalled /\ callFormData.hasUsername) =>
        /\ callOutcome.kind = "returned"
        /\ callOutcome.value.kind = "result"
        /\ callFormData.username \in TooShort =>
              /\ callOutcome.value.success = FALSE
              /\ callOutcome.value.message =
                    "Username must be at least 3 characters long"
        /\ callFormData.username \notin TooShort =>
              /\ callOutcome.value.success = TRUE
              /\ callOutcome.value.message =
                    "User " \o callFormData.id \o " updated to "
                            \o callFormData.username

C19_Witness ==
    /\ callPreState = Result(TRUE, "User 1 updated to bob")
    /\ callFormData = [id |-> "42", username |-> "abc", hasUsername |-> TRUE]
    /\ callOutcome = [kind |-> "returned",
                      value |-> Result(TRUE, "User 42 updated to abc")]

\* The last submission whose action has returned (0 when none has).
LastReturned ==
    IF \A i \in 1..nSubmitted : returned[i] = NotYet
       THEN 0
       ELSE CHOOSE i \in 1..nSubmitted :
               /\ returned[i] # NotYet
               /\ \A j \in 1..nSubmitted : returned[j] # NotYet => j <= i

C20_Invariant ==
    /\ LastReturned = 0 => (state = UndefinedState /\ ~MessageShown(state))
    /\ MessageShown(state) =>
          /\ \E i \in 1..LastReturned : state = returned[i]
          /\ MessageClass(state) = "text-green-500" <=> state.success
          /\ MessageClass(state) = "text-red-500" <=> ~state.success
    /\ (~RenderScheduled /\ nSubmitted >= 1 /\ Unreturned = {}) =>
          /\ MessageShown(state)
          /\ state = returned[nSubmitted]

C20_Step ==
    (/\ LastReturned >= 1
     /\ MessageShown(state)
     /\ state = returned[LastReturned]
     /\ Unreturned' # {}
     /\ LastReturned' = LastReturned) => state' = state

\* C20: App displays no result message before the first submission has
\* completed (the form state starts undefined); a displayed message is the
\* message of a completed submission, green exactly when state.success and
\* red otherwise; once the submissions have completed and App has rendered,
\* the message of the last one is displayed; and the displayed message of
\* the most recently completed submission stays displayed while a later
\* submission is pending.
C20_MessageOfCompletedSubmission ==
    /\ []C20_Invariant
    /\ [][C20_Step]_vars

C20_Witness ==
    /\ nSubmitted = 2
    /\ returned[1] = Result(FALSE, "Username must be at least 3 characters long")
    /\ returned[2] = NotYet
    /\ ~RenderScheduled
    /\ isPending
    /\ MessageShown(state)
    /\ state = returned[1]
    /\ MessageClass(state) = "text-red-500"

\* C21: in App the counter and the form are independent: a click on the
\* counter button leaves the form state and the pending flag (as the hook
\* holds them and as displayed) unchanged, and starting or completing a form
\* submission leaves count (displayed and queued) unchanged, whatever the
\* interleaving of clicks and submissions.
C21_CounterAndFormIndependent ==
    [][/\ countClicks' # countClicks =>
            /\ state' = state /\ isPending' = isPending
            /\ hookState' = hookState /\ hookPending' = hookPending
            /\ actionQueue' = actionQueue /\ returned' = returned
       /\ (nSubmitted' # nSubmitted \/ returned' # returned) =>
            /\ count' = count /\ countQueue' = countQueue
            /\ countClicks' = countClicks]_vars

C21_Witness ==
    /\ count >= 1
    /\ countQueue >= 1
    /\ hookPending /\ isPending
    /\ returned[1] # NotYet
    /\ state = returned[1]
    /\ Cardinality(Unreturned) = 1

\* C22: a DataConsumer rendered with no DataProvider above it fails while
\* rendering: dataContext has no default value, so useContext returns
\* undefined, destructuring it raises an error and nothing is displayed;
\* a consumer rendered under a DataProvider never raises this error.
C22_ConsumerOutsideProviderThrows ==
    \A c \in Consumers :
        /\ outside[c] =>
              /\ renderError[c] = NotIterable
              /\ shown[c] = NothingShown
              /\ parent[c] = Unmounted
        /\ parent[c] \in Providers =>
              /\ renderError[c] = NoError
              /\ shown[c] \in {InitialData, ChangedData}
        /\ renderError[c] # NoError => outside[c]

C22_Witness ==
    \E c, d \in Consumers :
        /\ outside[c] /\ renderError[c] = NotIterable
        /\ parent[d] \in Providers /\ shown[d] = ChangedData
        /\ renderError[d] = NoError

\* The hook was started with the default initialState, {}.
DefaultInitialState == DOMAIN initialState = {}

\* Some call starts, or settles, in the step.
CallStarts ==
    \E c \in Calls : uasCalls[c].pc = "idle" /\ uasCalls'[c].pc = "pending"
CallSettles ==
    \E c \in Calls : uasCalls[c].pc = "pending" /\ uasCalls'[c].pc = "settled"

NoCallPending == \A c \in Calls : uasCalls[c].pc # "pending"

\* The call that settled last, once one has settled.
SettledLast == settleOrder[Len(settleOrder)]

\* C24: when executeAction calls overlap, the data and error the hook ends
\* with are those of the call that settled last, whichever call was started
\* last: the outcome of an earlier-started call that settles after a
\* later-started one overwrites the later call's outcome.
C24_LastSettledCallWins ==
    (settleOrder # <<>> /\ NoCallPending) =>
        LET outcome == uasCalls[SettledLast].outcome IN
        /\ outcome.kind = "resolved" =>
              (uasState["data"] = outcome.value /\ uasState["error"] = Null)
        /\ outcome.kind = "rejected" =>
              (uasState["data"] = Null /\ uasState["error"] = outcome.value)

C24_Witness ==
    /\ NoCallPending
    /\ settleOrder = <<2, 1>>
    /\ uasCalls[1].outcome = [kind |-> "rejected", value |-> "e1"]
    /\ uasCalls[2].outcome = [kind |-> "resolved", value |-> "r2"]
    /\ uasState["data"] = Null
    /\ uasState["error"] = "e1"

\* C25: in ChatApp no sent message is lost: once every handleSubmit call
\* has finished awaiting sendMessage, messages holds one entry with status
\* 'sent' for each call, in call order, also when handleSubmit was called
\* again before an earlier call's sendMessage resolved.
C25_NoMessageLost ==
    (\A c \in 1..nSends : sends[c].pc = "done") =>
        messages = [c \in 1..nSends |-> Message(c, "sent")]

====
